---- MODULE Spec2Model ----
(***************************************************************************)
(* A model of Automation-Blog-and-Promotion.py: the topic history store,   *)
(* the duplicate detector, the topic generator, the blog-post generator    *)
(* and the image transcoder.                                               *)
(*                                                                         *)
(* Strings are sequences of one-character strings.  The external services  *)
(* (text generation, blog platform, JPEG encoder, file system) are the     *)
(* environment: their answers are drawn with \E from small sets.           *)
(***************************************************************************)
EXTENDS Integers, Sequences, FiniteSets, TLC

(***************************************************************************)
(* Bounds of the model.                                                    *)
(***************************************************************************)
\* longest topic / title string enumerated for the duplicate detector
MaxLen == 3

\* number of invocations of the script that are followed
MaxRuns == 2

\* largest width and height of the source images and bounding boxes that are
\* enumerated for the transcoder
MaxDim == 4

\* largest number of pieces an enumerated source path is made of
MaxPieces == 2

(***************************************************************************)
(* Strings.                                                                *)
(***************************************************************************)
\* the characters topics and titles are made of: two letters, one of them
\* in both cases, so that str.lower() is not the identity
Chars == {"a", "A", "b"}

\* all strings of length 0..n over Chars
StringsUpTo(n) == UNION {[1..k -> Chars] : k \in 0..n}

\* the upper-case letters and, at the same index, their lower-case forms
UpperLetters ==
    <<"A", "B", "C", "D", "E", "F", "G", "H", "I", "J", "K", "L",
       "M", "N", "O", "P", "Q", "R", "S", "T", "U", "V", "W", "X",
       "Y", "Z">>

LowerLetters ==
    <<"a", "b", "c", "d", "e", "f", "g", "h", "i", "j", "k", "l",
       "m", "n", "o", "p", "q", "r", "s", "t", "u", "v", "w", "x",
       "y", "z">>

\* str.lower() on one character
LowerChar(c) ==
    IF \E i \in 1..Len(UpperLetters) : UpperLetters[i] = c
    THEN LowerLetters[CHOOSE i \in 1..Len(UpperLetters) : UpperLetters[i] = c]
    ELSE c

\* str.lower()
Lower(s) == [i \in 1..Len(s) |-> LowerChar(s[i])]

(***************************************************************************)
(* difflib.SequenceMatcher(None, a, b).ratio(), no junk (strings shorter   *)
(* than the 200 characters at which difflib's autojunk heuristic starts).  *)
(* Indices are 1-based, ranges alo..ahi and blo..bhi inclusive.            *)
(***************************************************************************)
RECURSIVE MatchLen(_, _, _, _, _, _)
\* length of the common run of a[i..ahi] and b[j..bhi] starting at i and j
MatchLen(a, b, i, ahi, j, bhi) ==
    IF i > ahi \/ j > bhi \/ a[i] # b[j]
    THEN 0
    ELSE 1 + MatchLen(a, b, i + 1, ahi, j + 1, bhi)

\* find_longest_match: the longest matching block; of all longest blocks the
\* one that starts earliest in a, and of those the one that starts earliest
\* in b.  <<i, j, k>> with k = 0 when nothing matches.
FindLongestMatch(a, b, alo, ahi, blo, bhi) ==
    LET cand == {<<i, j, MatchLen(a, b, i, ahi, j, bhi)>> :
                     i \in alo..ahi, j \in blo..bhi}
        best == {c \in cand :
                   \A d \in cand :
                      \/ c[3] > d[3]
                      \/ c[3] = d[3] /\ c[1] < d[1]
                      \/ c[3] = d[3] /\ c[1] = d[1] /\ c[2] <= d[2]}
    IN  IF cand = {} THEN <<alo, blo, 0>> ELSE CHOOSE c \in best : TRUE

RECURSIVE Matches(_, _, _, _, _, _)
\* get_matching_blocks: the total size of the matching blocks found by
\* splitting around the longest match and recursing left and right of it
Matches(a, b, alo, ahi, blo, bhi) ==
    IF alo > ahi \/ blo > bhi
    THEN 0
    ELSE LET m == FindLongestMatch(a, b, alo, ahi, blo, bhi)
         IN  IF m[3] = 0
             THEN 0
             ELSE m[3]
                  + Matches(a, b, alo, m[1] - 1, blo, m[2] - 1)
                  + Matches(a, b, m[1] + m[3], ahi, m[2] + m[3], bhi)

\* ratio() = 2.0 * matches / (len(a) + len(b)), 1.0 when both are empty,
\* kept as the fraction <<numerator, denominator>>
Ratio(a, b) ==
    IF Len(a) + Len(b) = 0
    THEN <<1, 1>>
    ELSE <<2 * Matches(a, b, 1, Len(a), 1, Len(b)), Len(a) + Len(b)>>

\* the default threshold 0.8 of is_topic_duplicate, in tenths
ThresholdTenths == 8

\* similarity >= threshold, on the fraction
AtLeastThreshold(r) == 10 * r[1] >= ThresholdTenths * r[2]

AboveThreshold(r) == 10 * r[1] > ThresholdTenths * r[2]

\* SequenceMatcher(None, new_topic.lower(), title.lower()).ratio()
Similarity(new_topic, title) == Ratio(Lower(new_topic), Lower(title))

RECURSIVE is_topic_duplicate_strict(_, _)
\* is_topic_duplicate with "similarity > threshold" for ">="
is_topic_duplicate_strict(new_topic, existing_titles) ==
    IF existing_titles = <<>>
    THEN FALSE
    ELSE IF AboveThreshold(Similarity(new_topic, Head(existing_titles)))
         THEN TRUE
         ELSE is_topic_duplicate_strict(new_topic, Tail(existing_titles))

RECURSIVE is_topic_duplicate(_, _)
\* the loop over existing_titles with its early return
is_topic_duplicate(new_topic, existing_titles) ==
    IF existing_titles = <<>>
    THEN FALSE
    ELSE IF AtLeastThreshold(Similarity(new_topic, Head(existing_titles)))
         THEN TRUE
         ELSE is_topic_duplicate(new_topic, Tail(existing_titles))

(***************************************************************************)
(* The topic history store: past_topics.json.                              *)
(* The file is [readable, topics]: readable is FALSE when the file is      *)
(* missing or does not parse as JSON, and load_past_topics then gives [].  *)
(***************************************************************************)
\* past_topics[:30] (save_past_topic) and load_past_topics()[:30]
HISTORY_CAP == 30

\* s[:n]
Take(s, n) == SubSeq(s, 1, IF Len(s) < n THEN Len(s) ELSE n)

\* the elements of a list
Range(s) == {s[i] : i \in 1..Len(s)}

\* load_past_topics(): the list in the file, [] for a missing or corrupt file
load_past_topics(file) == IF file.readable THEN file.topics ELSE <<>>

\* what open(..., "w") and file.write() can do
WriteOutcomes == {"ok", "open_fails", "write_fails"}

\* a save that writes the new topic alone
InsertOverwriting(past_topics, topic) == <<topic>>

\* past_topics.insert(0, topic); past_topics = past_topics[:30]
InsertAndTruncate(past_topics, topic) ==
    Take(<<topic>> \o past_topics, HISTORY_CAP)

\* save_past_topic without the [:30] slice
save_past_topic_uncapped(file, topic, write) ==
    LET past_topics == <<topic>> \o load_past_topics(file)
    IN  CASE write = "ok"          -> [readable |-> TRUE, topics |-> past_topics]
          [] write = "open_fails"  -> file
          [] write = "write_fails" -> [readable |-> FALSE, topics |-> <<>>]

\* save_past_topic with append() for insert(0, ...)
save_past_topic_append(file, topic, write) ==
    LET past_topics == Take(Append(load_past_topics(file), topic), HISTORY_CAP)
    IN  CASE write = "ok"          -> [readable |-> TRUE, topics |-> past_topics]
          [] write = "open_fails"  -> file
          [] write = "write_fails" -> [readable |-> FALSE, topics |-> <<>>]

\* save_past_topic(topic): load, insert at the front, keep the first 30, write.
\* open() failing leaves the file as it was; a write failing after open()
\* truncated the file leaves it unparsable; both IOErrors are caught.
save_past_topic(file, topic, write) ==
    LET inserted    == <<topic>> \o load_past_topics(file)
        past_topics == Take(inserted, HISTORY_CAP)
    IN  CASE write = "ok"          -> [readable |-> TRUE, topics |-> past_topics]
          [] write = "open_fails"  -> file
          [] write = "write_fails" -> [readable |-> FALSE, topics |-> <<>>]

(***************************************************************************)
(* The topic generator: generate_unique_topic.                             *)
(***************************************************************************)
\* retries=5
RETRIES == 5

\* the hardcoded fallback topic
FALLBACK_TOPIC ==
    <<"C", "y", "b", "e", "r", "s", "e", "c", "u", "r", "i", "t",
       "y", " ", "a", "n", "d", " ", "I", "T", " ", "L", "e", "a",
       "d", "e", "r", "s", "h", "i", "p", " ", "T", "r", "e", "n",
       "d", "s", " ", "i", "n", " ", "2", "0", "2", "5">>

\* what client.chat.completions.create(...) can raise: the Timeout of the
\* requests library, the timeout error of the openai client (an
\* openai.OpenAIError, not a requests exception), any other exception
ServiceFailures ==
    {"requests.exceptions.Timeout", "openai.APITimeoutError", "other"}

\* the failures that are timeouts of the text-generation request
IsTimeout(failure) ==
    failure \in {"requests.exceptions.Timeout", "openai.APITimeoutError"}

\* except clauses that retry on every exception
ExceptClauseRetryAll(failure) == "retry"

\* the except clauses of generate_unique_topic: "except
\* requests.exceptions.Timeout" sleeps and goes on with the loop, "except
\* Exception" returns None
ExceptClause(failure) ==
    IF failure = "requests.exceptions.Timeout" THEN "retry" ELSE "return_none"

\* a test that compares an answer with the blog's titles only
IsUniqueAmongTitles(new_topic, existing_titles, last_30_titles) ==
    ~is_topic_duplicate(new_topic, existing_titles)

\* the test that accepts an answer: not is_topic_duplicate(new_topic,
\* existing_titles) and new_topic not in last_30_titles
IsUnique(new_topic, existing_titles, last_30_titles) ==
    /\ ~is_topic_duplicate(new_topic, existing_titles)
    /\ new_topic \notin Range(last_30_titles)

\* the values generate_unique_topic returns
NoneResult == [kind |-> "None", topic |-> <<>>]

Pending == [kind |-> "pending", topic |-> <<>>]

Accepted(new_topic) == [kind |-> "accepted", topic |-> new_topic]

Fallback == [kind |-> "fallback", topic |-> FALLBACK_TOPIC]

(***************************************************************************)
(* The image transcoder: compress_and_resize_image.                        *)
(***************************************************************************)
\* max_size_kb=976
MAX_SIZE_KB == 976

\* max_dimensions=(720, 720)
MAX_DIMENSION == 720

\* os.path.getsize(...) / 1024
BYTES_PER_KB == 1024

\* quality = 85
START_QUALITY == 85

\* quality <= 20
QUALITY_FLOOR == 20

\* quality -= 5
QUALITY_STEP == 5

\* size="1024x1024" of the generated images
GENERATED_SIZE == 1024

\* os.path.join(FALLBACK_IMAGE_DIRECTORY, "default_fallback_image.png")
FALLBACK_IMAGE_PATH ==
    <<"/", "U", "s", "e", "r", "s", "/", "t", "i", "m", "g", "a", "b",
      "a", "r", "e", "e", "/", "L", "i", "b", "r", "a", "r", "y", "/",
      "C", "l", "o", "u", "d", "S", "t", "o", "r", "a", "g", "e", "/",
      "D", "r", "o", "p", "b", "o", "x", "/", "P", "r", "o", "j", "e",
      "c", "t", "s", "/", "P", "y", "t", "h", "o", "n", "/", "a", "u",
      "t", "o", "m", "a", "t", "i", "o", "n", "P", "r", "o", "j", "e",
      "c", "t", "1", "/", "m", "e", "d", "i", "a", "/", "f", "a", "l",
      "l", "b", "a", "c", "k", "_", "i", "m", "a", "g", "e", "s", "/",
      "d", "e", "f", "a", "u", "l", "t", "_", "f", "a", "l", "l", "b",
      "a", "c", "k", "_", "i", "m", "a", "g", "e", ".", "p", "n", "g">>

\* "_compressed.jpg"
COMPRESSED_SUFFIX ==
    <<"_", "c", "o", "m", "p", "r", "e", "s", "s", "e", "d", ".", "j",
      "p", "g">>

\* the index of the last "." of path, 0 when it has none
LastDot(path) ==
    IF \E i \in 1..Len(path) : path[i] = "."
    THEN CHOOSE i \in 1..Len(path) :
             /\ path[i] = "."
             /\ \A j \in (i + 1)..Len(path) : path[j] # "."
    ELSE 0

\* path.rsplit(".", 1)[0]: what precedes the last ".", the whole path when
\* it has no "."
RsplitDotHead(path) ==
    IF LastDot(path) = 0 THEN path ELSE SubSeq(path, 1, LastDot(path) - 1)

\* the transcoder writing its output over the source file
CompressedPathInPlace(image_path) == image_path

\* compressed_image_path = image_path.rsplit(".", 1)[0] + "_compressed.jpg"
CompressedPath(image_path) == RsplitDotHead(image_path) \o COMPRESSED_SUFFIX

Abs(n) == IF n < 0 THEN -n ELSE n

\* math.ceil(n / d) for n >= 0, d > 0
CeilDiv(n, d) == (n + d - 1) \div d

\* Image.thumbnail, round_aspect(y * aspect, key = abs(aspect - n / y)) with
\* aspect = w / h: of floor and ceil the one whose ratio to y is nearer the
\* aspect, and at least 1.  The keys are floats: when the two are equal as
\* fractions the rounding decides, and both outcomes are kept.
RoundAspectWidth(y, w, h) ==
    LET fl  == (y * w) \div h
        ce  == CeilDiv(y * w, h)
        key(n) == Abs(w * y - n * h)
        picked == {n \in {fl, ce} : \A m \in {fl, ce} : key(n) <= key(m)}
    IN  {IF n < 1 THEN 1 ELSE n : n \in picked}

\* Image.thumbnail, round_aspect(x / aspect, key = 0 if n == 0 else
\* abs(aspect - x / n)); key(0) = 0 picks the floor 0, which becomes 1
RoundAspectHeight(x, w, h) ==
    LET fl  == (x * h) \div w
        ce  == CeilDiv(x * h, w)
        flKey == Abs(w * fl - x * h) * ce
        ceKey == Abs(w * ce - x * h) * fl
        picked == IF fl = 0
                  THEN {fl}
                  ELSE {n \in {fl, ce} : IF n = fl THEN flKey <= ceKey
                                                   ELSE ceKey <= flKey}
    IN  {IF n < 1 THEN 1 ELSE n : n \in picked}

\* img.resize(max_dimensions) in the place of img.thumbnail(max_dimensions)
resize_to_box(w, h, x, y) == {<<x, y>>}

\* img.thumbnail(max_dimensions, LANCZOS) on a w x h image with the bounding
\* box (x, y): the sizes the image can have afterwards.  Unchanged when the
\* image fits the box, else shrunk, keeping the aspect ratio, to fit it.
thumbnail(w, h, x, y) ==
    IF x >= w /\ y >= h
    THEN {<<w, h>>}
    ELSE IF x * h >= w * y
         THEN {<<nx, y>> : nx \in RoundAspectWidth(y, w, h)}
         ELSE {<<x, ny>> : ny \in RoundAspectHeight(x, w, h)}

\* a budget test that wants the file under the budget: file_size_kb <
\* max_size_kb
WithinBudgetStrict(bytes, max_size_kb) == bytes < BYTES_PER_KB * max_size_kb

\* file_size_kb <= max_size_kb, with file_size_kb = bytes / 1024
WithinBudget(bytes, max_size_kb) == bytes <= BYTES_PER_KB * max_size_kb

\* a loop whose quality test is one step off: it stops at quality 25
LoopEndsOneStepEarly(bytes, max_size_kb, q) ==
    WithinBudget(bytes, max_size_kb) \/ q - QUALITY_STEP <= QUALITY_FLOOR

\* the break of the encode loop: file_size_kb <= max_size_kb or quality <= 20
LoopEnds(bytes, max_size_kb, q) ==
    WithinBudget(bytes, max_size_kb) \/ q <= QUALITY_FLOOR

\* a file: an image of a size in pixels and bytes (quality 0: not a JPEG this
\* transcoder encoded), or bytes that are no image
ImageFile(w, h, bytes, q) ==
    [image |-> TRUE, width |-> w, height |-> h, bytes |-> bytes, quality |-> q]

GarbageFile(bytes) ==
    [image |-> FALSE, width |-> 0, height |-> 0, bytes |-> bytes, quality |-> 0]

\* the file system after writing file at path
WriteFile(files, path, file) ==
    [p \in DOMAIN files \cup {path} |-> IF p = path THEN file ELSE files[p]]

(***************************************************************************)
(* The publishing pipeline: Python values, string methods, paths, labels.  *)
(***************************************************************************)
\* a str value and the value None
Str(s) == [kind |-> "str", text |-> s]

None == [kind |-> "None", text |-> <<>>]

\* "if not value": None and the empty string are falsy
Falsy(value) == value.kind = "None" \/ value.text = <<>>

\* f"{value}": the text of a str, "None" for None
Format(value) ==
    IF value.kind = "None" THEN <<"N", "o", "n", "e">> ELSE value.text

\* the characters str.strip() removes and \s matches
Whitespace == {" ", "\n", "\t"}

Digits == {"0", "1", "2", "3", "4", "5", "6", "7", "8", "9"}

\* s[n:]
Drop(s, n) == SubSeq(s, n + 1, Len(s))

\* the number of characters at the start of s that are in set
RECURSIVE LeadingIn(_, _)
LeadingIn(s, set) ==
    IF s # <<>> /\ s[1] \in set THEN 1 + LeadingIn(Tail(s), set) ELSE 0

\* the number of characters at the end of s that are in set
RECURSIVE TrailingIn(_, _)
TrailingIn(s, set) ==
    IF s # <<>> /\ s[Len(s)] \in set
    THEN 1 + TrailingIn(SubSeq(s, 1, Len(s) - 1), set)
    ELSE 0

\* str.strip()
Strip(s) ==
    LET lead == LeadingIn(s, Whitespace)
    IN  IF lead = Len(s)
        THEN <<>>
        ELSE SubSeq(s, lead + 1, Len(s) - TrailingIn(s, Whitespace))

\* str.split(sep) for a one-character sep: the pieces between the
\* separators, [""] for the empty string
RECURSIVE Split(_, _)
Split(s, sep) ==
    IF \E i \in 1..Len(s) : s[i] = sep
    THEN LET i == CHOOSE k \in 1..Len(s) :
                      s[k] = sep /\ \A j \in 1..(k - 1) : s[j] # sep
         IN  <<SubSeq(s, 1, i - 1)>> \o Split(Drop(s, i), sep)
    ELSE <<s>>

\* str.replace(old, new) for one-character old and new
Replace(s, old, new) == [i \in 1..Len(s) |-> IF s[i] = old THEN new ELSE s[i]]

\* str.startswith(prefix)
StartsWith(s, prefix) ==
    Len(s) >= Len(prefix) /\ SubSeq(s, 1, Len(prefix)) = prefix

\* os.path.join(directory, name)
PathJoin(directory, name) == directory \o <<"/">> \o name

MEDIA_DIRECTORY ==
    <<"/", "U", "s", "e", "r", "s", "/", "t", "i", "m", "g", "a", "b", "a",
      "r", "e", "e", "/", "L", "i", "b", "r", "a", "r", "y", "/", "C", "l",
      "o", "u", "d", "S", "t", "o", "r", "a", "g", "e", "/", "D", "r", "o",
      "p", "b", "o", "x", "/", "P", "r", "o", "j", "e", "c", "t", "s", "/",
      "P", "y", "t", "h", "o", "n", "/", "a", "u", "t", "o", "m", "a", "t",
      "i", "o", "n", "P", "r", "o", "j", "e", "c", "t", "1", "/", "m", "e",
      "d", "i", "a">>

FALLBACK_IMAGE_DIRECTORY ==
    <<"/", "U", "s", "e", "r", "s", "/", "t", "i", "m", "g", "a", "b", "a",
      "r", "e", "e", "/", "L", "i", "b", "r", "a", "r", "y", "/", "C", "l",
      "o", "u", "d", "S", "t", "o", "r", "a", "g", "e", "/", "D", "r", "o",
      "p", "b", "o", "x", "/", "P", "r", "o", "j", "e", "c", "t", "s", "/",
      "P", "y", "t", "h", "o", "n", "/", "a", "u", "t", "o", "m", "a", "t",
      "i", "o", "n", "P", "r", "o", "j", "e", "c", "t", "1", "/", "m", "e",
      "d", "i", "a", "/", "f", "a", "l", "l", "b", "a", "c", "k", "_", "i",
      "m", "a", "g", "e", "s">>

AI_FALLBACK_IMAGE ==
    <<"a", "i", "_", "f", "a", "l", "l", "b", "a", "c", "k", "_", "i", "m",
      "a", "g", "e", ".", "p", "n", "g">>

CYBERSECURITY_FALLBACK_IMAGE ==
    <<"c", "y", "b", "e", "r", "s", "e", "c", "u", "r", "i", "t", "y", "_",
      "f", "a", "l", "l", "b", "a", "c", "k", "_", "i", "m", "a", "g", "e",
      ".", "p", "n", "g">>

IT_LEADERSHIP_FALLBACK_IMAGE ==
    <<"i", "t", "_", "l", "e", "a", "d", "e", "r", "s", "h", "i", "p", "_",
      "f", "a", "l", "l", "b", "a", "c", "k", "_", "i", "m", "a", "g", "e",
      ".", "p", "n", "g">>

DEFAULT_FALLBACK_IMAGE ==
    <<"d", "e", "f", "a", "u", "l", "t", "_", "f", "a", "l", "l", "b", "a",
      "c", "k", "_", "i", "m", "a", "g", "e", ".", "p", "n", "g">>

\* get_fallback_image: fallback_map.get(category.lower(),
\* "ai_fallback_image.png") under FALLBACK_IMAGE_DIRECTORY
get_fallback_image(category) ==
    LET key == Lower(category)
    IN  PathJoin(FALLBACK_IMAGE_DIRECTORY,
                 CASE key = <<"a", "i">> -> AI_FALLBACK_IMAGE
                   [] key = <<"c", "y", "b", "e", "r", "s", "e", "c", "u",
                             "r", "i", "t", "y">> ->
                          CYBERSECURITY_FALLBACK_IMAGE
                   [] key = <<"i", "t", "_", "l", "e", "a", "d", "e", "r",
                             "s", "h", "i", "p">> ->
                          IT_LEADERSHIP_FALLBACK_IMAGE
                   [] OTHER -> AI_FALLBACK_IMAGE)

\* the path generate_blog_image saves the picture at:
\* os.path.join(MEDIA_DIRECTORY, f"{topic.replace(' ', '_')}.png")
GeneratedImagePath(topic) ==
    PathJoin(MEDIA_DIRECTORY, Replace(topic, " ", "_") \o <<".", "p", "n", "g">>)

\* validate_url(url) for a str: "https://" is put before a URL that starts
\* with neither "http://" nor "https://"
validate_url(url) ==
    IF \/ StartsWith(url, <<"h", "t", "t", "p", ":", "/", "/">>)
       \/ StartsWith(url, <<"h", "t", "t", "p", "s", ":", "/", "/">>)
    THEN url
    ELSE <<"h", "t", "t", "p", "s", ":", "/", "/">> \o Strip(url)

\* format_signature("html"), of which the text is kept
SIGNATURE_HTML ==
    <<"I", "n", " ", "p", "a", "r", "t", "n", "e", "r", "s", "h", "i", "p",
      ",", " ", "T", "i", "m">>

FIXED_LABEL_POOL ==
    <<<<"A", "I">>,
      <<"C", "y", "b", "e", "r", "s", "e", "c", "u", "r", "i", "t", "y">>,
      <<"I", "T", " ", "L", "e", "a", "d", "e", "r", "s", "h", "i", "p">>,
      <<"D", "a", "t", "a", " ", "P", "r", "i", "v", "a", "c", "y">>,
      <<"C", "l", "o", "u", "d", " ", "S", "e", "c", "u", "r", "i", "t", "y">>,
      <<"M", "a", "c", "h", "i", "n", "e", " ", "L", "e", "a", "r", "n", "i", "n",
  "g">>,
      <<"T", "h", "r", "e", "a", "t", " ", "I", "n", "t", "e", "l", "l", "i", "g",
  "e", "n", "c", "e">>,
      <<"Z", "e", "r", "o", " ", "T", "r", "u", "s", "t">>,
      <<"N", "e", "t", "w", "o", "r", "k", " ", "S", "e", "c", "u", "r", "i", "t",
  "y">>,
      <<"B", "l", "o", "c", "k", "c", "h", "a", "i", "n">>,
      <<"D", "e", "v", "S", "e", "c", "O", "p", "s">>,
      <<"R", "i", "s", "k", " ", "M", "a", "n", "a", "g", "e", "m", "e", "n", "t">>>>

\* ["AI", "Cybersecurity"]
DEFAULT_FIXED_LABELS == <<FIXED_LABEL_POOL[1], FIXED_LABEL_POOL[2]>>

\* ["Tech Trends", "IT Strategy"]
DEFAULT_AI_LABELS ==
    <<<<"T", "e", "c", "h", " ", "T", "r", "e", "n", "d", "s">>,
      <<"I", "T", " ", "S", "t", "r", "a", "t", "e", "g", "y">>>>

\* a label call that hands on, when it has fewer than two labels, the
\* labels it has
FirstTwoOrFewer(labels, defaults) == Take(labels, 2)

\* labels[:2] if len(labels) >= 2 else defaults
FirstTwoOr(labels, defaults) ==
    IF Len(labels) >= 2 THEN Take(labels, 2) ELSE defaults

\* select_fixed_labels on the answer of the text-generation service (None:
\* the request raised): the lines of the stripped answer that are in the
\* pool, each stripped; the first two of them, or the default labels
select_fixed_labels(answer) ==
    IF answer.kind = "None"
    THEN DEFAULT_FIXED_LABELS
    ELSE LET lines == Split(Strip(answer.text), "\n")
             InPool(label) == label \in Range(FIXED_LABEL_POOL)
             fixed_labels == [i \in 1..Len(SelectSeq(lines, InPool)) |->
                                 Strip(SelectSeq(lines, InPool)[i])]
         IN  FirstTwoOr(fixed_labels, DEFAULT_FIXED_LABELS)

\* re.sub(r'^\d+\.\s*', '', label): digits, a dot and the whitespace after
\* it are taken off the start of the label
RemoveNumbering(label) ==
    LET digits == LeadingIn(label, Digits)
    IN  IF digits >= 1 /\ digits < Len(label) /\ label[digits + 1] = "."
        THEN Drop(label, digits + 1 + LeadingIn(Drop(label, digits + 1), Whitespace))
        ELSE label

\* generate_labels_from_ai on the answer of the text-generation service: the
\* lines of the stripped answer that are not empty and not one of
\* fixed_labels, each without numbering and stripped; the first two of
\* them, or the default labels
generate_labels_from_ai(answer, fixed_labels) ==
    IF answer.kind = "None"
    THEN DEFAULT_AI_LABELS
    ELSE LET lines == Split(Strip(answer.text), "\n")
             Kept(label) == label # <<>> /\ label \notin Range(fixed_labels)
             ai_labels == [i \in 1..Len(SelectSeq(lines, Kept)) |->
                              Strip(RemoveNumbering(SelectSeq(lines, Kept)[i]))]
         IN  FirstTwoOr(ai_labels, DEFAULT_AI_LABELS)

(***************************************************************************)
(* State.                                                                  *)
(***************************************************************************)
VARIABLES
    \* is_topic_duplicate called on its own: arguments, called yet, result
    dup_topic, dup_titles, dup_called, dup_result,
    \* the script: past_topics.json, the invocations finished so far and
    \* the place the current invocation is at
    past_topics_file, runs, pc,
    \* generate_unique_topic: its argument, its locals, what it returned
    existing_titles, last_30_titles, retry_count, gu_result,
    \* generate_unique_topic, observed: the requests sent to the
    \* text-generation service, how many of them timed out, and the number
    \* of the request that failed otherwise (0: none)
    requests, timeouts, failed_at,
    \* generate_blog_post, observed: the file when the invocation started
    \* and what the write of save_past_topic did ("none": not called)
    file_at_start, last_write,
    \* generate_blog_post: the article the text-generation service answered
    \* (None: no answer)
    post_content,
    \* the rest of __main__: the media files on disk (path to file), the
    \* locals of post_to_blogger and the variables of __main__
    disk, blogger_image_path, blog_image_url, all_labels, blogger_url,
    final_image_path, bluesky_image_path,
    \* the rest of __main__, observed: the stages executed, in order, what
    \* the call of generate_blog_image just made met and returned (no call
    \* once its caller has gone on to its next step), the body of the insert
    \* request sent to the blog platform and whether the platform published
    \* it, the image files uploaded to Bluesky and to Twitter, the posts
    \* submitted to the social platforms, the exception that ended the run
    stages, image_call, insert_request, published, bluesky_blob,
    twitter_media, posts, fault,
    \* compress_and_resize_image: its arguments, the files on disk (path to
    \* file), the place it is at, its locals (the size of img, the path it
    \* writes, quality, the bytes getsize last gave) and the path it returned
    image_path, max_size_kb, max_dimensions, files, img_pc, img_size,
    compressed_image_path, quality, file_size, returned_path,
    \* compress_and_resize_image, observed: the files when it was called,
    \* the qualities it encoded at and the bytes getsize gave, pass by pass,
    \* and the paths it wrote
    files_at_call, encoded_at, encoded_bytes, written,
    \* two invocations calling save_past_topic at the same time: the place
    \* each call is at, its argument, its local past_topics, what its open
    \* and write did, and, observed, the steps taken so far, in order
    conc_pc, conc_topic, conc_past_topics, conc_write, conc_steps

dupVars == <<dup_topic, dup_titles, dup_called, dup_result>>

topicVars == <<existing_titles, last_30_titles, retry_count, gu_result,
               requests, timeouts, failed_at>>

pubVars == <<disk, blogger_image_path, blog_image_url, all_labels, blogger_url,
             final_image_path, bluesky_image_path, stages, image_call,
             insert_request, published, bluesky_blob, twitter_media, posts,
             fault>>

runVars == <<past_topics_file, runs, pc, topicVars, file_at_start, last_write,
             post_content, pubVars>>

imgVars == <<image_path, max_size_kb, max_dimensions, files, img_pc, img_size,
             compressed_image_path, quality, file_size, returned_path,
             files_at_call, encoded_at, encoded_bytes, written>>

concVars == <<conc_pc, conc_topic, conc_past_topics, conc_write, conc_steps>>

vars == <<dupVars, runVars, imgVars, concVars>>

\* the values of the variables of a part of the model that is not running
DupIdle ==
    /\ dup_topic = <<>>
    /\ dup_titles = <<>>
    /\ dup_called = FALSE
    /\ dup_result = FALSE

\* the two invocations
Procs == {1, 2}

ConcIdle ==
    /\ conc_pc = [p \in Procs |-> "off"]
    /\ conc_topic = [p \in Procs |-> <<>>]
    /\ conc_past_topics = [p \in Procs |-> <<>>]
    /\ conc_write = [p \in Procs |-> "none"]
    /\ conc_steps = <<>>

\* no file at all
NoFiles == [p \in {} |-> GarbageFile(0)]

\* no insert request sent, no image file uploaded
NoRequest == [sent |-> FALSE, labels |-> <<>>, image |-> None]

NoCall == [met |-> "none", returned |-> <<>>]

NoMedia == [uploaded |-> FALSE, path |-> <<>>, file |-> GarbageFile(0)]

\* the variables of the rest of __main__ before it is reached, with the
\* media files on disk given
PubIdle(media) ==
    /\ disk = media
    /\ blogger_image_path = <<>>
    /\ blog_image_url = None
    /\ all_labels = <<>>
    /\ blogger_url = None
    /\ final_image_path = <<>>
    /\ bluesky_image_path = <<>>
    /\ stages = <<>>
    /\ image_call = NoCall
    /\ insert_request = NoRequest
    /\ published = FALSE
    /\ bluesky_blob = NoMedia
    /\ twitter_media = NoMedia
    /\ posts = {}
    /\ fault = "none"

RunIdle ==
    /\ post_content = None
    /\ PubIdle(NoFiles)
    /\ past_topics_file = [readable |-> FALSE, topics |-> <<>>]
    /\ runs = 0
    /\ pc = "off"
    /\ existing_titles = <<>>
    /\ last_30_titles = <<>>
    /\ retry_count = 0
    /\ gu_result = Pending
    /\ requests = 0
    /\ timeouts = 0
    /\ failed_at = 0
    /\ file_at_start = [readable |-> FALSE, topics |-> <<>>]
    /\ last_write = "none"

ImgIdle ==
    /\ image_path = <<>>
    /\ max_size_kb = MAX_SIZE_KB
    /\ max_dimensions = <<MAX_DIMENSION, MAX_DIMENSION>>
    /\ files = NoFiles
    /\ img_pc = "off"
    /\ img_size = <<0, 0>>
    /\ compressed_image_path = <<>>
    /\ quality = 0
    /\ file_size = 0
    /\ returned_path = <<>>
    /\ files_at_call = NoFiles
    /\ encoded_at = <<>>
    /\ encoded_bytes = <<>>
    /\ written = {}

(***************************************************************************)
(* The duplicate detector on every candidate and every short title list.   *)
(***************************************************************************)
\* the title lists the detector is tried on: none, one title, or two titles
\* of which the second has at most MaxLen - 2 characters
TitleLists ==
    {<<>>}
    \cup {<<t>> : t \in StringsUpTo(MaxLen)}
    \cup {<<t, u>> : t \in StringsUpTo(MaxLen), u \in StringsUpTo(MaxLen - 2)}

DupInit ==
    /\ ConcIdle
    /\ dup_topic \in StringsUpTo(MaxLen)
    /\ dup_titles \in TitleLists
    /\ dup_called = FALSE
    /\ dup_result = FALSE
    /\ RunIdle
    /\ ImgIdle

\* one call of is_topic_duplicate(new_topic, existing_titles)
CallIsTopicDuplicate ==
    /\ ~dup_called
    /\ dup_called' = TRUE
    /\ dup_result' = is_topic_duplicate(dup_topic, dup_titles)
    /\ UNCHANGED <<dup_topic, dup_titles, runVars, imgVars, concVars>>

DupNext == CallIsTopicDuplicate

SpecDup == DupInit /\ [][DupNext]_vars

\* C1: is_topic_duplicate returns true exactly when some existing title has
\* case-insensitive similarity ratio >= 0.8 (= 4/5) with the candidate, the
\* value 0.8 itself included; on an empty list it returns false.
DupIffSimilarTitle ==
    dup_called =>
        /\ dup_result <=>
              \E i \in 1..Len(dup_titles) :
                 LET r == Ratio(Lower(dup_topic), Lower(dup_titles[i]))
                 IN  5 * r[1] >= 4 * r[2]
        /\ dup_titles = <<>> => ~dup_result

\* C1 witness: a call that reports duplicate on a title whose similarity is
\* exactly 0.8 and whose letters differ from the candidate's in case
DupAtBoundary ==
    /\ dup_called
    /\ dup_result
    /\ Len(dup_titles) = 1
    /\ LET r == Ratio(Lower(dup_topic), Lower(dup_titles[1]))
       IN  5 * r[1] = 4 * r[2]
    /\ Ratio(dup_topic, dup_titles[1])[1] < Ratio(Lower(dup_topic), Lower(dup_titles[1]))[1]

(***************************************************************************)
(* The script, one invocation after the other: generate_blog_post with     *)
(* generate_unique_topic and save_past_topic.                              *)
(***************************************************************************)
\* bijective base-3 numeral of n over the characters a, A, b: the n-th
\* string in the order a, A, b, aa, aA, ab, Aa, ...
RECURSIVE NthTopic(_)
NthTopic(n) ==
    IF n = 0
    THEN <<>>
    ELSE LET d == ((n - 1) % 3) + 1
         IN  Append(NthTopic((n - d) \div 3), <<"a", "A", "b">>[d])

\* a history of n different topics, as n earlier invocations leave it
HistoryOf(n) == [i \in 1..n |-> NthTopic(i)]

\* the files the first invocation can find: no file, and files holding 1, 29
\* and 30 topics
InitialFiles ==
    {[readable |-> FALSE, topics |-> <<>>]}
    \cup {[readable |-> TRUE, topics |-> HistoryOf(n)] : n \in {1, 29, 30}}

\* the topics the text-generation service answers: the empty string, a topic
\* of the one-topic history, the same topic in another case, a topic that
\* differs from the blog title "ab" in case only, and a topic that is in
\* none of the initial histories
ServiceTopics == {<<>>, <<"a">>, <<"A">>, <<"A", "b">>, <<"b", "A", "b">>}

\* what get_existing_blog_titles() returns: the titles of the blog's recent
\* posts, [] when the blog has none or the request failed
BlogTitleLists == {<<>>, <<<<"a", "b">>>>, <<<<"b">>, <<"a", "b">>>>}

RunInit ==
    /\ DupIdle
    /\ ConcIdle
    /\ ImgIdle
    /\ past_topics_file \in InitialFiles
    /\ runs = 0
    /\ pc = "start"
    /\ existing_titles = <<>>
    /\ last_30_titles = <<>>
    /\ retry_count = 0
    /\ gu_result = Pending
    /\ requests = 0
    /\ timeouts = 0
    /\ failed_at = 0
    /\ file_at_start = past_topics_file
    /\ last_write = "none"
    /\ post_content = None
    /\ PubIdle(NoFiles)

\* what the text-generation service answers the article request with,
\* stripped: nothing, or the HTML of an article
ArticleAnswers ==
    {Str(<<>>), Str(<<"<", "p", ">", "a", "<", "/", "p", ">">>)}

\* "if not topic": None and the empty string are no topic
NoTopic(result) == result.kind = "None" \/ result.topic = <<>>

\* generate_unique_topic returns result; generate_blog_post goes on to the
\* article when it is a topic and returns (None, None) when it is not
ReturnTopic(result) ==
    /\ gu_result' = result
    /\ pc' = IF NoTopic(result) THEN "exit" ELSE "write_post"

\* the end of one pass of the retry loop that did not return: the next pass,
\* or after the last pass the fallback topic
NextAttempt ==
    /\ retry_count' = retry_count + 1
    /\ IF retry_count + 1 < RETRIES
       THEN UNCHANGED <<gu_result, pc>>
       ELSE ReturnTopic(Fallback)

\* the invocation starts: generate_blog_post fetches the blog's titles and
\* calls generate_unique_topic, which loads the history
StartRun ==
    /\ pc = "start"
    /\ runs < MaxRuns
    /\ existing_titles' \in BlogTitleLists
    /\ last_30_titles' = Take(load_past_topics(past_topics_file), HISTORY_CAP)
    /\ retry_count' = 0
    /\ gu_result' = Pending
    /\ requests' = 0
    /\ timeouts' = 0
    /\ failed_at' = 0
    /\ file_at_start' = past_topics_file
    /\ last_write' = "none"
    /\ pc' = "generate_unique_topic"
    /\ UNCHANGED <<past_topics_file, runs, post_content, pubVars, dupVars,
                   imgVars, concVars>>

\* a loop that counts a pass only when the request timed out: a duplicate
\* answer is asked for again without using up an attempt
TopicAnsweredNotCounted(new_topic) ==
    /\ pc = "generate_unique_topic"
    /\ requests' = requests + 1
    /\ IF IsUnique(new_topic, existing_titles, last_30_titles)
       THEN ReturnTopic(Accepted(new_topic))
       ELSE UNCHANGED <<gu_result, pc>>
    /\ UNCHANGED <<retry_count, existing_titles, last_30_titles, timeouts,
                   failed_at, past_topics_file, runs, file_at_start,
                   last_write, post_content, pubVars, dupVars, imgVars,
                   concVars>>

\* one pass of the loop in which the service answers new_topic
TopicAnswered(new_topic) ==
    /\ pc = "generate_unique_topic"
    /\ requests' = requests + 1
    /\ IF IsUnique(new_topic, existing_titles, last_30_titles)
       THEN /\ ReturnTopic(Accepted(new_topic))
            /\ UNCHANGED retry_count
       ELSE NextAttempt
    /\ UNCHANGED <<existing_titles, last_30_titles, timeouts, failed_at,
                   past_topics_file, runs, file_at_start, last_write,
                   post_content, pubVars, dupVars, imgVars, concVars>>

\* one pass of the loop in which the request raises failure
TopicFailed(failure) ==
    /\ pc = "generate_unique_topic"
    /\ requests' = requests + 1
    /\ timeouts' = IF IsTimeout(failure) THEN timeouts + 1 ELSE timeouts
    /\ failed_at' = IF IsTimeout(failure) THEN failed_at ELSE requests + 1
    /\ IF ExceptClause(failure) = "retry"
       THEN NextAttempt
       ELSE /\ ReturnTopic(NoneResult)
            /\ UNCHANGED retry_count
    /\ UNCHANGED <<existing_titles, last_30_titles,
                   past_topics_file, runs, file_at_start, last_write,
                   post_content, pubVars, dupVars, imgVars, concVars>>

\* generate_blog_post saving the topic whether or not the article was written
WritePostSavingFirst ==
    /\ pc = "write_post"
    /\ \E answer \in ArticleAnswers \cup {None}, write \in WriteOutcomes :
          /\ past_topics_file' =
                 save_past_topic(past_topics_file, gu_result.topic, write)
          /\ last_write' = write
          /\ post_content' = answer
          /\ pc' = IF answer # None THEN "post_ready" ELSE "exit"
    /\ UNCHANGED <<topicVars, runs, file_at_start, pubVars, dupVars, imgVars,
            concVars>>

\* generate_blog_post asks for the article: with an answer it saves the topic
\* and returns (full_post, topic), full_post being the stripped answer and
\* the signature after it; on any exception it returns (None, None)
WritePost ==
    /\ pc = "write_post"
    /\ \/ \E answer \in ArticleAnswers, write \in WriteOutcomes :
             /\ past_topics_file' =
                    save_past_topic(past_topics_file, gu_result.topic, write)
             /\ last_write' = write
             /\ post_content' = answer
             /\ pc' = "post_ready"
       \/ /\ pc' = "exit"
          /\ UNCHANGED <<past_topics_file, last_write, post_content>>
    /\ UNCHANGED <<topicVars, runs, file_at_start, pubVars, dupVars, imgVars,
            concVars>>

\* the invocation is over and the scheduler starts the next one
NextRun ==
    /\ pc \in {"post_ready", "exit"}
    /\ runs' = runs + 1
    /\ pc' = "start"
    /\ post_content' = None
    /\ UNCHANGED <<past_topics_file, topicVars, file_at_start, last_write,
                   pubVars, dupVars, imgVars, concVars>>

Init == RunInit

Next ==
    \/ StartRun
    \/ \E new_topic \in ServiceTopics : TopicAnswered(new_topic)
    \/ \E failure \in ServiceFailures : TopicFailed(failure)
    \/ WritePost
    \/ NextRun

Spec == Init /\ [][Next]_vars

(***************************************************************************)
(* Properties of the topic generator.                                      *)
(***************************************************************************)
\* C2: a topic that generate_unique_topic accepts from the text-generation
\* service is flagged by the duplicate detector (similarity >= 0.8) against
\* neither source: not against the blog's titles, not against the history.
AcceptedTopicUnlikeBothSources ==
    gu_result.kind = "accepted" =>
        /\ ~is_topic_duplicate(gu_result.topic, existing_titles)
        /\ ~is_topic_duplicate(gu_result.topic, last_30_titles)

\* C3: when every request generate_unique_topic sent failed with a timeout,
\* it has sent 5 of them and returns the fallback topic, not None.
TimeoutsEndInFallback ==
    (gu_result.kind # "pending" /\ requests > 0 /\ timeouts = requests) =>
        /\ requests = 5
        /\ gu_result.kind = "fallback"
        /\ gu_result.topic = FALLBACK_TOPIC

\* C4: once a request has failed with a failure that is not a timeout,
\* generate_unique_topic has returned None, without the fallback topic, and
\* that request is the last one it sent.
OtherFailureAborts ==
    failed_at # 0 =>
        /\ gu_result.kind = "None"
        /\ requests = failed_at
        /\ pc \in {"exit", "start"}

\* C4 witness: the second request follows a retried timeout and fails
\* otherwise; None is returned
AbortedAfterRetry ==
    /\ failed_at = 2
    /\ timeouts = 1
    /\ gu_result.kind = "None"
    /\ pc = "exit"

\* C20: generate_unique_topic ends after at most 5 requests to the
\* text-generation service, whatever the answers and failures: every pass of
\* its loop sends one request, a pass that ends in a duplicate answer or in
\* a caught timeout uses up one of the 5 attempts, and when the fifth
\* attempt is used up the fallback topic is returned.
TopicWithinFiveRequests ==
    /\ [](/\ requests <= 5
          /\ pc = "generate_unique_topic" =>
                /\ gu_result = Pending
                /\ retry_count = requests
                /\ requests < 5
          /\ gu_result.kind \in {"accepted", "None"} =>
                requests = retry_count + 1
          /\ gu_result.kind = "fallback" <=>
                (gu_result # Pending /\ retry_count = 5)
          /\ gu_result.kind = "fallback" =>
                /\ requests = 5
                /\ gu_result.topic = FALLBACK_TOPIC)
    /\ [][pc = "generate_unique_topic" =>
             /\ requests' = requests + 1
             /\ pc' = "generate_unique_topic" => retry_count' = retry_count + 1
             /\ pc' # "generate_unique_topic" => gu_result' # Pending]_vars

\* C20 witness: the fallback topic returned after five requests of which
\* some timed out and the others were answered with a duplicate
FallbackAfterTimeoutsAndDuplicates ==
    /\ gu_result = Fallback
    /\ requests = 5
    /\ timeouts \in 1..4

(***************************************************************************)
(* Properties of the topic history.                                        *)
(***************************************************************************)
\* C5: the persisted history never has more than 30 entries.
HistoryAtMost30 == Len(past_topics_file.topics) <= 30

\* C5 witness: a topic was saved into a history that had 30 entries
SavedIntoFullHistory ==
    /\ last_write = "ok"
    /\ Len(load_past_topics(file_at_start)) = 30
    /\ Len(past_topics_file.topics) = 30

\* C6: after a save_past_topic(t) that wrote the file, the history is t
\* followed by the previous history in its order, cut to 30 entries.
SavedTopicFirstOldestDropped ==
    (pc = "post_ready" /\ last_write = "ok") =>
        LET old == load_past_topics(file_at_start)
            new == past_topics_file.topics
        IN  /\ past_topics_file.readable
            /\ Len(new) = IF Len(old) < 30 THEN Len(old) + 1 ELSE 30
            /\ new[1] = gu_result.topic
            /\ \A i \in 2..Len(new) : new[i] = old[i - 1]

\* C6 witness: a save on overflow; the topic accepted from the service is at
\* index 0, the last entry is the one that was last but one, and the oldest
\* entry is gone
OverflowDroppedOldest ==
    /\ pc = "post_ready"
    /\ last_write = "ok"
    /\ gu_result.kind = "accepted"
    /\ LET old == load_past_topics(file_at_start)
           new == past_topics_file.topics
       IN  /\ Len(old) = 30
           /\ new[1] = gu_result.topic
           /\ new[30] = old[29]
           /\ old[30] \notin Range(new)

\* C23: in invocations that follow one another from a history without
\* repeated entries, the only string that occurs more than once in the
\* persisted history is the hardcoded fallback topic: a topic accepted from
\* the text-generation service is not an entry of the history, neither when
\* generate_unique_topic returns it nor when save_past_topic loads the file
\* to insert it.
OnlyFallbackTopicRepeats ==
    /\ \A i, j \in 1..Len(past_topics_file.topics) :
          (i < j /\ past_topics_file.topics[i] = past_topics_file.topics[j])
              => past_topics_file.topics[i] = FALLBACK_TOPIC
    /\ (pc = "write_post" /\ gu_result.kind = "accepted") =>
          /\ gu_result.topic \notin Range(last_30_titles)
          /\ gu_result.topic \notin Range(load_past_topics(past_topics_file))
    /\ (pc = "post_ready" /\ gu_result.kind = "accepted") =>
          gu_result.topic \notin Range(load_past_topics(file_at_start))

\* C23 witness: two invocations that both ran out of attempts saved the
\* fallback topic one after the other, and the file holds it twice
FallbackTopicSavedTwice ==
    /\ runs = 1
    /\ pc = "post_ready"
    /\ last_write = "ok"
    /\ gu_result = Fallback
    /\ Len(past_topics_file.topics) >= 2
    /\ past_topics_file.topics[1] = FALLBACK_TOPIC
    /\ past_topics_file.topics[2] = FALLBACK_TOPIC

TopicResults ==
    {NoneResult,
     Accepted(<<>>),
     Accepted(<<"C", "y", "b", "e", "r", "s", "e", "c", "u", "r", "i", "t",
                "y">>),
     Fallback}

\* the picture of a fallback asset, as Generate_Fallback_Images.py makes them
FallbackAsset == ImageFile(1792, 1024, 4 * BYTES_PER_KB * MAX_SIZE_KB, 0)

\* the fallback assets on disk before the run: none, the three of the
\* fallback map, or the default one only
MediaBefore ==
    {NoFiles,
     [p \in {PathJoin(FALLBACK_IMAGE_DIRECTORY, name) :
                name \in {AI_FALLBACK_IMAGE, CYBERSECURITY_FALLBACK_IMAGE,
                          IT_LEADERSHIP_FALLBACK_IMAGE}} |-> FallbackAsset],
     WriteFile(NoFiles, FALLBACK_IMAGE_PATH, FallbackAsset)}

PubInit ==
    /\ DupIdle
    /\ ConcIdle
    /\ ImgIdle
    /\ past_topics_file = [readable |-> FALSE, topics |-> <<>>]
    /\ runs = 0
    /\ pc = "start"
    /\ existing_titles = <<>>
    /\ last_30_titles = <<>>
    /\ retry_count = 0
    /\ gu_result = Pending
    /\ requests = 0
    /\ timeouts = 0
    /\ failed_at = 0
    /\ file_at_start = past_topics_file
    /\ last_write = "none"
    /\ post_content = None
    /\ \E media \in MediaBefore : PubIdle(media)

\* generate_blog_post calls generate_unique_topic, which returns result
GenerateTopic ==
    /\ pc = "start"
    /\ \E result \in TopicResults : ReturnTopic(result)
    /\ UNCHANGED <<past_topics_file, runs, existing_titles, last_30_titles,
                   retry_count, requests, timeouts, failed_at, file_at_start,
                   last_write, post_content, pubVars, dupVars, imgVars,
                   concVars>>

\* full_post = post_content + format_signature("html")
FullPost(content) ==
    IF content = None THEN None ELSE Str(content.text \o SIGNATURE_HTML)

\* "if not blog_post_content or not topic: exit()" does not exit
MainGoesOn == ~Falsy(FullPost(post_content)) /\ ~NoTopic(gu_result)

\* what one call of generate_blog_image can meet: the picture is saved; bytes
\* that are no picture are saved (the download answered with an error
\* page); the image service raises; the response has no image URL; the
\* download raises; the file cannot be created or is not there after the
\* write; the write raises another OSError
ImageOutcomes ==
    {"saved", "saved_no_image", "openai.OpenAIError", "ValueError",
     "requests.RequestException", "FileNotFoundError", "OSError"}

\* an except clause that leaves out FileNotFoundError
ImageExceptClauseShort(failure) ==
    failure \in {"openai.OpenAIError", "requests.RequestException", "ValueError"}

\* except (openai.OpenAIError, requests.RequestException, ValueError,
\* FileNotFoundError): the exceptions generate_blog_image catches
ImageExceptClause(failure) ==
    failure \in {"openai.OpenAIError", "requests.RequestException",
                 "ValueError", "FileNotFoundError"}

\* generate_blog_image(topic) with the media files given: whether it raises,
\* the path it returns and the media files afterwards
generate_blog_image(topic, media, outcome) ==
    CASE outcome = "saved" ->
            [raised |-> FALSE, path |-> GeneratedImagePath(topic),
             disk |-> WriteFile(media, GeneratedImagePath(topic),
                                ImageFile(GENERATED_SIZE, GENERATED_SIZE,
                                          4 * BYTES_PER_KB * MAX_SIZE_KB, 0))]
      [] outcome = "saved_no_image" ->
            [raised |-> FALSE, path |-> GeneratedImagePath(topic),
             disk |-> WriteFile(media, GeneratedImagePath(topic),
                                GarbageFile(BYTES_PER_KB))]
      [] OTHER ->
            IF ImageExceptClause(outcome)
            THEN [raised |-> FALSE, path |-> get_fallback_image(topic),
                  disk |-> media]
            ELSE [raised |-> TRUE, path |-> <<>>, disk |-> media]

\* "if not path or not os.path.exists(path): path = <default fallback>"
ExistingOrDefault(path, media) ==
    IF path = <<>> \/ path \notin DOMAIN media THEN FALLBACK_IMAGE_PATH ELSE path

\* the encodes the loop of the transcoder can end with: the first one, at
\* quality 85 and within the budget, or the last one, at the floor and over
\* the budget
LastEncodes ==
    {[quality |-> START_QUALITY, bytes |-> BYTES_PER_KB * MAX_SIZE_KB],
     [quality |-> QUALITY_FLOOR, bytes |-> BYTES_PER_KB * MAX_SIZE_KB + 1]}

\* compress_and_resize_image(path) with its default budget and bounding box
\* and the media files given: the outcomes it can have
compress_and_resize_image(path, media) ==
    IF path \notin DOMAIN media
    THEN {[raised |-> FALSE, path |-> FALLBACK_IMAGE_PATH, disk |-> media]}
    ELSE IF ~media[path].image
         THEN {[raised |-> TRUE, path |-> <<>>, disk |-> media]}
         ELSE {[raised |-> FALSE, path |-> CompressedPath(path),
                disk |-> WriteFile(media, CompressedPath(path),
                                   ImageFile(size[1], size[2], last.bytes,
                                             last.quality))] :
                   size \in thumbnail(media[path].width, media[path].height,
                                      MAX_DIMENSION, MAX_DIMENSION),
                   last \in LastEncodes}

\* post_to_blogger returns (None, None, []) to __main__
BloggerFails ==
    /\ blogger_url' = None
    /\ blog_image_url' = None
    /\ all_labels' = <<>>
    /\ pc' = "main_image"

\* the script runs into an exception that nothing catches
Unhandled(exception) ==
    /\ fault' = exception
    /\ pc' = "crashed"

\* __main__ goes on after generate_blog_post and calls post_to_blogger, which
\* calls generate_blog_image and takes the default fallback for a path that
\* does not exist; an exception generate_blog_image lets through is caught
\* by post_to_blogger
BloggerImage ==
    /\ pc = "post_ready"
    /\ MainGoesOn
    /\ stages' = Append(stages, "image")
    /\ \E outcome \in ImageOutcomes :
          LET call == generate_blog_image(gu_result.topic, disk, outcome)
          IN  /\ image_call' = [met |-> outcome, returned |-> call.path]
              /\ disk' = call.disk
              /\ IF call.raised
                 THEN /\ BloggerFails
                      /\ UNCHANGED blogger_image_path
                 ELSE /\ blogger_image_path' =
                             ExistingOrDefault(call.path, call.disk)
                      /\ pc' = "blogger_upload"
                      /\ UNCHANGED <<blogger_url, blog_image_url, all_labels>>
    /\ UNCHANGED <<past_topics_file, runs, topicVars, file_at_start,
                   last_write, post_content, final_image_path,
                   bluesky_image_path, insert_request, published,
                   bluesky_blob, twitter_media, posts, fault, dupVars, imgVars,
                   concVars>>

\* "https://drive.google.com/thumbnail?id=...": the public URL of an upload
DRIVE_URL ==
    <<"h", "t", "t", "p", "s", ":", "/", "/", "d", "r", "i", "v", "e", ".",
      "g", "o", "o", "g", "l", "e", ".", "c", "o", "m", "/", "t", "h", "u",
      "m", "b", "n", "a", "i", "l", "?", "i", "d", "=", "1", "&", "s", "z",
      "=", "w", "1", "0", "0", "0">>

\* what the file storage does with an upload
UploadOutcomes == {"uploaded", "fails"}

\* upload_blog_image_to_drive: the public URL, None when the file is not
\* there or the storage fails
BloggerUpload ==
    /\ pc = "blogger_upload"
    /\ stages' = Append(stages, "upload")
    /\ \E upload \in UploadOutcomes :
          blog_image_url' =
              IF blogger_image_path \in DOMAIN disk /\ upload = "uploaded"
              THEN Str(DRIVE_URL)
              ELSE None
    /\ image_call' = NoCall
    /\ pc' = "blogger_labels"
    /\ UNCHANGED <<past_topics_file, runs, topicVars, file_at_start,
                   last_write, post_content, disk, blogger_image_path,
                   all_labels, blogger_url, final_image_path,
                   bluesky_image_path, insert_request, published,
                   bluesky_blob, twitter_media, posts, fault, dupVars,
                   imgVars, concVars>>

\* what the text-generation service answers select_fixed_labels with: no
\* answer (the request raises), one label of the pool, three labels of the
\* pool the first of which has a blank after it
FixedLabelAnswers ==
    {None,
     Str(<<"Z", "e", "r", "o", " ", "T", "r", "u", "s", "t">>),
     Str(<<"Z", "e", "r", "o", " ", "T", "r", "u", "s", "t", " ", "\n", "A",
           "I", "\n", "B", "l", "o", "c", "k", "c", "h", "a", "i", "n">>)}

\* what the text-generation service answers generate_labels_from_ai with:
\* no answer, one label, two numbered labels that are the default fixed
\* labels, three labels the first of which is a fixed label
AiLabelAnswers ==
    {None,
     Str(<<"G", "o", "v", "e", "r", "n", "a", "n", "c", "e">>),
     Str(<<"1", ".", " ", "A", "I", "\n", "2", ".", " ", "C", "y", "b", "e",
           "r", "s", "e", "c", "u", "r", "i", "t", "y">>),
     Str(<<"A", "I", "\n", "G", "o", "v", "e", "r", "n", "a", "n", "c", "e",
           "\n", "T", "e", "c", "h", " ", "E", "t", "h", "i", "c", "s">>)}

\* the two label calls: all_labels = fixed_labels + ai_labels
BloggerLabels ==
    /\ pc = "blogger_labels"
    /\ stages' = Append(stages, "labels")
    /\ \E fixed_answer \in FixedLabelAnswers, ai_answer \in AiLabelAnswers :
          LET fixed_labels == select_fixed_labels(fixed_answer)
              ai_labels == generate_labels_from_ai(ai_answer, fixed_labels)
          IN  all_labels' = fixed_labels \o ai_labels
    /\ pc' = "blogger_insert"
    /\ UNCHANGED <<past_topics_file, runs, topicVars, file_at_start,
                   last_write, post_content, disk, blogger_image_path,
                   blog_image_url, blogger_url, final_image_path,
                   bluesky_image_path, image_call, insert_request,
                   published, bluesky_blob, twitter_media, posts, fault,
                   dupVars, imgVars, concVars>>

\* the URL of the published post
POST_URL ==
    <<"h", "t", "t", "p", ":", "/", "/", "t", "i", "m", "g", "a", "b", "a",
      "r", "e", "e", ".", "b", "l", "o", "g", "s", "p", "o", "t", ".", "c",
      "o", "m", "/", "1", ".", "h", "t", "m", "l">>

\* what the blog platform does with the insert: it publishes the post and
\* answers with its URL, it publishes the post and answers without a URL,
\* it rejects the request
InsertOutcomes == {"url", "no_url", "HttpError"}

\* posts().insert(...).execute(): with a URL in the response post_to_blogger
\* returns (blogger_url, blog_image_url, all_labels), else it raises
\* ValueError, which, like the exception of the request, it catches
BloggerInsert ==
    /\ pc = "blogger_insert"
    /\ stages' = Append(stages, "insert")
    /\ insert_request' = [sent |-> TRUE, labels |-> all_labels,
                          image |-> blog_image_url]
    /\ \E insert \in InsertOutcomes :
          /\ published' = (insert # "HttpError")
          /\ IF insert = "url"
             THEN /\ blogger_url' = Str(POST_URL)
                  /\ pc' = "main_image"
                  /\ UNCHANGED <<blog_image_url, all_labels>>
             ELSE BloggerFails
    /\ UNCHANGED <<past_topics_file, runs, topicVars, file_at_start,
                   last_write, post_content, disk, blogger_image_path,
                   final_image_path, bluesky_image_path, image_call,
                   bluesky_blob, twitter_media, posts, fault, dupVars, imgVars,
                   concVars>>

\* "Step 4" of __main__: generate_blog_image is called again and the
\* default fallback taken for a path that does not exist
MainImage ==
    /\ pc = "main_image"
    /\ stages' = Append(stages, "image")
    /\ \E outcome \in ImageOutcomes :
          LET call == generate_blog_image(gu_result.topic, disk, outcome)
          IN  /\ image_call' = [met |-> outcome, returned |-> call.path]
              /\ disk' = call.disk
              /\ IF call.raised
                 THEN /\ Unhandled(outcome)
                      /\ UNCHANGED final_image_path
                 ELSE /\ final_image_path' =
                             ExistingOrDefault(call.path, call.disk)
                      /\ pc' = "main_compress"
                      /\ UNCHANGED fault
    /\ UNCHANGED <<past_topics_file, runs, topicVars, file_at_start,
                   last_write, post_content, blogger_image_path,
                   blog_image_url, all_labels, blogger_url,
                   bluesky_image_path, insert_request, published,
                   bluesky_blob, twitter_media, posts, dupVars, imgVars,
                   concVars>>

\* bluesky_image_path = compress_and_resize_image(final_image_path)
MainCompress ==
    /\ pc = "main_compress"
    /\ stages' = Append(stages, "compress")
    /\ \E call \in compress_and_resize_image(final_image_path, disk) :
          /\ disk' = call.disk
          /\ IF call.raised
             THEN /\ Unhandled("PIL.UnidentifiedImageError")
                  /\ UNCHANGED bluesky_image_path
             ELSE /\ bluesky_image_path' = call.path
                  /\ pc' = "post_to_bluesky"
                  /\ UNCHANGED fault
    /\ image_call' = NoCall
    /\ UNCHANGED <<past_topics_file, runs, topicVars, file_at_start,
                   last_write, post_content, blogger_image_path,
                   blog_image_url, all_labels, blogger_url, final_image_path,
                   insert_request, published, bluesky_blob, twitter_media,
                   posts, dupVars, imgVars, concVars>>

\* what Bluesky does: the login fails, the upload of the blob fails, the
\* blob is taken and the post rejected, the blob is taken and the post made
BlueskyOutcomes == {"login_fails", "blob_fails", "record_fails", "posted"}

\* a post_to_bluesky that uploads the image __main__ hands to Twitter
BlueskySourceOriginal(transcoded, original) == original

\* post_to_bluesky uploads the file at the path the transcoder returned
BlueskySource(transcoded, original) == transcoded

\* post_to_bluesky: the image at final_image_path is transcoded again, the
\* default fallback taken for a path that does not exist; then, every
\* exception caught: login, validate_url(blogger_url), which raises
\* AttributeError for None, the image file read and uploaded as a blob, the
\* post submitted
PostToBluesky ==
    /\ pc = "post_to_bluesky"
    /\ stages' = Append(stages, "bluesky")
    /\ \E call \in compress_and_resize_image(final_image_path, disk),
          bluesky \in BlueskyOutcomes :
          /\ disk' = call.disk
          /\ IF call.raised
             THEN /\ Unhandled("PIL.UnidentifiedImageError")
                  /\ UNCHANGED <<bluesky_image_path, bluesky_blob, posts>>
             ELSE LET path == BlueskySource(
                                  ExistingOrDefault(call.path, call.disk),
                                  final_image_path)
                      reaches_upload ==
                          /\ bluesky # "login_fails"
                          /\ blogger_url # None
                          /\ path \in DOMAIN call.disk
                      uploads == reaches_upload /\ bluesky # "blob_fails"
                  IN  /\ bluesky_image_path' = path
                      /\ bluesky_blob' =
                             IF uploads
                             THEN [uploaded |-> TRUE, path |-> path,
                                   file |-> call.disk[path]]
                             ELSE bluesky_blob
                      /\ posts' =
                             IF uploads /\ bluesky = "posted"
                             THEN posts \cup
                                  {[platform |-> "bluesky",
                                    link |-> validate_url(blogger_url.text)]}
                             ELSE posts
                      /\ pc' = "post_to_twitter"
                      /\ UNCHANGED fault
    /\ UNCHANGED <<past_topics_file, runs, topicVars, file_at_start,
                   last_write, post_content, blogger_image_path,
                   blog_image_url, all_labels, blogger_url, final_image_path,
                   image_call, insert_request, published, twitter_media,
                   dupVars, imgVars, concVars>>

\* what Twitter does: the media upload raises tweepy.TweepyException, the
\* media is taken and the status update raises it, the tweet is made
TwitterOutcomes == {"upload_fails", "status_fails", "posted"}

\* what api_v1.media_upload raises for a file that is not there
MissingMediaErrors == {"tweepy.TweepyException", "FileNotFoundError"}

\* post_to_twitter: the tweet text holds f"{blogger_url}"; the image at
\* final_image_path, or the default fallback when it is not there, is
\* uploaded and the tweet made; only tweepy.TweepyException is caught
PostToTwitter ==
    /\ pc = "post_to_twitter"
    /\ stages' = Append(stages, "twitter")
    /\ LET path == ExistingOrDefault(final_image_path, disk)
       IN  IF path \notin DOMAIN disk
           THEN /\ \E error \in MissingMediaErrors :
                      IF error = "tweepy.TweepyException"
                      THEN pc' = "post_to_twitter_premium" /\ UNCHANGED fault
                      ELSE Unhandled(error)
                /\ UNCHANGED <<twitter_media, posts>>
           ELSE /\ \E twitter \in TwitterOutcomes :
                      /\ twitter_media' =
                             IF twitter # "upload_fails"
                             THEN [uploaded |-> TRUE, path |-> path,
                                   file |-> disk[path]]
                             ELSE twitter_media
                      /\ posts' =
                             IF twitter = "posted"
                             THEN posts \cup {[platform |-> "twitter",
                                               link |-> Format(blogger_url)]}
                             ELSE posts
                /\ pc' = "post_to_twitter_premium"
                /\ UNCHANGED fault
    /\ UNCHANGED <<past_topics_file, runs, topicVars, file_at_start,
                   last_write, post_content, disk, blogger_image_path,
                   blog_image_url, all_labels, blogger_url, final_image_path,
                   bluesky_image_path, image_call, insert_request,
                   published, bluesky_blob, dupVars, imgVars, concVars>>

\* what Twitter does with the long post: the login fails, create_tweet
\* raises tweepy.TweepyException, the tweet is made
PremiumOutcomes == {"login_fails", "tweet_fails", "posted"}

\* post_to_twitter_premium: after the login, and outside any try,
\* validate_url(blogger_url), which raises AttributeError for None; then the
\* tweet, of which only tweepy.TweepyException is caught
PostToTwitterPremium ==
    /\ pc = "post_to_twitter_premium"
    /\ stages' = Append(stages, "twitter_premium")
    /\ \E premium \in PremiumOutcomes :
          IF premium = "login_fails"
          THEN pc' = "done" /\ UNCHANGED <<posts, fault>>
          ELSE IF blogger_url = None
               THEN Unhandled("AttributeError") /\ UNCHANGED posts
               ELSE /\ posts' =
                          IF premium = "posted"
                          THEN posts \cup
                               {[platform |-> "twitter_premium",
                                 link |-> validate_url(blogger_url.text)]}
                          ELSE posts
                    /\ pc' = "done"
                    /\ UNCHANGED fault
    /\ UNCHANGED <<past_topics_file, runs, topicVars, file_at_start,
                   last_write, post_content, disk, blogger_image_path,
                   blog_image_url, all_labels, blogger_url, final_image_path,
                   bluesky_image_path, image_call, insert_request,
                   published, bluesky_blob, twitter_media, dupVars, imgVars,
                   concVars>>

PubNext ==
    \/ GenerateTopic
    \/ WritePost
    \/ BloggerImage
    \/ BloggerUpload
    \/ BloggerLabels
    \/ BloggerInsert
    \/ MainImage
    \/ MainCompress
    \/ PostToBluesky
    \/ PostToTwitter
    \/ PostToTwitterPremium

SpecPub == PubInit /\ [][PubNext]_vars

NoArticleNoPublish ==
    (/\ pc \notin {"start", "write_post", "off"}
     /\ NoTopic(gu_result) \/ Falsy(post_content)) =>
        /\ stages = <<>>
        /\ ~insert_request.sent
        /\ bluesky_blob = NoMedia
        /\ twitter_media = NoMedia
        /\ posts = {}

\* C14, as claimed: once there is an article, no failure of a later stage
\* ends the run with an exception that nothing catches, and a run that ends
\* has executed the three promotion stages.
LaterFailuresNeverAbort ==
    /\ fault = "none"
    /\ pc # "crashed"
    /\ pc = "done" =>
          {"bluesky", "twitter", "twitter_premium"} \subseteq Range(stages)

\* the place of a stage in the order image generation, blog publish (image
\* upload, labels, insert), promotion (transcoding and the social posts)
StageRank(stage) ==
    CASE stage = "image" -> 1
      [] stage \in {"upload", "labels", "insert"} -> 2
      [] OTHER -> 3

\* C15, as claimed: the stages of a run come in the order image generation,
\* blog publish (upload, then insert), promotion, after the topic and the
\* article: no stage of an earlier place is executed after one of a later
\* place, and the upload is before the insert.
StagesInStrictOrder ==
    /\ stages # <<>> => (~NoTopic(gu_result) /\ post_content # None)
    /\ \A i, j \in 1..Len(stages) :
          i < j => /\ StageRank(stages[i]) <= StageRank(stages[j])
                   /\ ~(stages[i] = "insert" /\ stages[j] = "upload")

\* C17: every insert request sent to the blog platform carries exactly four
\* labels: the first two are labels of the fixed pool, the last two are the
\* two default AI labels or two lines of an answer of the label service
\* (without numbering and surrounding blanks).
InsertCarriesTwoFixedTwoAiLabels ==
    insert_request.sent =>
        LET labels == insert_request.labels
        IN  /\ Len(labels) = 4
            /\ labels[1] \in Range(FIXED_LABEL_POOL)
            /\ labels[2] \in Range(FIXED_LABEL_POOL)
            /\ \/ <<labels[3], labels[4]>> = DEFAULT_AI_LABELS
               \/ \E answer \in AiLabelAnswers \ {None} :
                     \A k \in {3, 4} :
                        \E i \in 1..Len(Split(Strip(answer.text), "\n")) :
                           labels[k] =
                              Strip(RemoveNumbering(
                                        Split(Strip(answer.text), "\n")[i]))

\* C17 witness: both label calls handed on their default labels and the
\* post was published with the four of them
PublishedWithDefaultLabels ==
    /\ insert_request.sent
    /\ insert_request.labels = DEFAULT_FIXED_LABELS \o DEFAULT_AI_LABELS
    /\ published
    /\ blogger_url = Str(POST_URL)

\* C18: the image file uploaded to Bluesky is the JPEG the transcoder made
\* of the run's image (final_image_path), within the bounding box; the image
\* file uploaded to Twitter is the file at final_image_path itself, which
\* no transcoder encoded.
BlueskyTranscodedTwitterOriginal ==
    /\ bluesky_blob.uploaded =>
          /\ bluesky_blob.path = CompressedPath(final_image_path)
          /\ bluesky_blob.path # final_image_path
          /\ bluesky_blob.file.image
          /\ bluesky_blob.file.quality \in 20..85
          /\ bluesky_blob.file.width <= 720
          /\ bluesky_blob.file.height <= 720
    /\ twitter_media.uploaded =>
          /\ twitter_media.path = final_image_path
          /\ twitter_media.file.image
          /\ twitter_media.file.quality = 0
          /\ twitter_media.file.width > 720

\* C18 witness: in one run the generated picture went to Twitter and its
\* transcoded form to Bluesky
BothPlatformsGotTheirImage ==
    /\ bluesky_blob.uploaded
    /\ twitter_media.uploaded
    /\ final_image_path = GeneratedImagePath(gu_result.topic)
    /\ twitter_media.file.width = 1024
    /\ bluesky_blob.file.width = 720

\* C21, as claimed: the two labels generate_labels_from_ai returns (the
\* third and the fourth label of all_labels) differ from both fixed labels
\* passed to it (the first and the second), whatever the label service
\* answered, with or without numbering, and when default labels are used.
AiLabelsDifferFromFixedLabels ==
    Len(all_labels) = 4 =>
        {all_labels[3], all_labels[4]} \cap {all_labels[1], all_labels[2]} = {}

\* C22, as claimed: no social post is submitted with a missing blog URL:
\* when post_to_blogger returned None for the URL, none of the three
\* promotion calls submits a post, and no post submitted carries the text
\* of None in the place of the blog URL.
NoSocialPostWithoutBlogUrl ==
    /\ blogger_url = None => posts = {}
    /\ \A post \in posts : post.link # Format(None)

\* C24, as claimed: post_to_blogger returns (None, None, []) only when no
\* article was published: whenever the blog platform accepted the insert,
\* __main__ holds the URL of the post and its four labels, so no promotion
\* stage runs with no URL and no labels for an article that is live.
FailureReportedOnlyIfNotPublished ==
    published =>
        /\ blogger_url = Str(POST_URL)
        /\ Len(all_labels) = 4
        /\ all_labels = insert_request.labels

(***************************************************************************)
(* Two invocations of the script saving their topics at the same time:     *)
(* save_past_topic as the steps load, open(..., "w"), write.               *)
(***************************************************************************)
\* the topics the two invocations save
ConcTopics == ServiceTopics \ {<<>>}

ConcInit ==
    /\ DupIdle
    /\ ImgIdle
    /\ past_topics_file \in InitialFiles
    /\ file_at_start = past_topics_file
    /\ runs = 0
    /\ pc = "off"
    /\ existing_titles = <<>>
    /\ last_30_titles = <<>>
    /\ retry_count = 0
    /\ gu_result = Pending
    /\ requests = 0
    /\ timeouts = 0
    /\ failed_at = 0
    /\ last_write = "none"
    /\ post_content = None
    /\ PubIdle(NoFiles)
    /\ conc_pc = [p \in Procs |-> "load"]
    /\ conc_topic \in [Procs -> ConcTopics]
    /\ conc_past_topics = [p \in Procs |-> <<>>]
    /\ conc_write = [p \in Procs |-> "none"]
    /\ conc_steps = <<>>

\* the variables a step of save_past_topic leaves alone
ConcFrame ==
    UNCHANGED <<conc_topic, runs, pc, topicVars, file_at_start, last_write,
                post_content, pubVars, dupVars, imgVars>>

\* past_topics = load_past_topics(), the topic inserted, the list cut to 30
ConcLoad(p) ==
    /\ conc_pc[p] = "load"
    /\ conc_past_topics' =
           [conc_past_topics EXCEPT
               ![p] = InsertAndTruncate(load_past_topics(past_topics_file),
                                        conc_topic[p])]
    /\ conc_pc' = [conc_pc EXCEPT ![p] = "open"]
    /\ conc_steps' = Append(conc_steps, <<p, "load">>)
    /\ UNCHANGED <<past_topics_file, conc_write>>
    /\ ConcFrame

\* open(TOPIC_HISTORY_FILE, "w"): the file is emptied, which leaves nothing
\* a load can parse, or open raises IOError and the call is over
ConcOpen(p) ==
    /\ conc_pc[p] = "open"
    /\ \/ /\ past_topics_file' = [readable |-> FALSE, topics |-> <<>>]
          /\ conc_pc' = [conc_pc EXCEPT ![p] = "write"]
          /\ UNCHANGED conc_write
       \/ /\ conc_pc' = [conc_pc EXCEPT ![p] = "done"]
          /\ conc_write' = [conc_write EXCEPT ![p] = "open_fails"]
          /\ UNCHANGED past_topics_file
    /\ conc_steps' = Append(conc_steps, <<p, "open">>)
    /\ UNCHANGED conc_past_topics
    /\ ConcFrame

\* file.write(...) and the close of the file: the list is in the file, or
\* the write raises IOError and the file stays as the open left it
ConcWrite(p) ==
    /\ conc_pc[p] = "write"
    /\ \E write \in WriteOutcomes \ {"open_fails"} :
          /\ conc_write' = [conc_write EXCEPT ![p] = write]
          /\ IF write = "ok"
             THEN past_topics_file' =
                      [readable |-> TRUE, topics |-> conc_past_topics[p]]
             ELSE UNCHANGED past_topics_file
    /\ conc_pc' = [conc_pc EXCEPT ![p] = "done"]
    /\ conc_steps' = Append(conc_steps, <<p, "write">>)
    /\ UNCHANGED conc_past_topics
    /\ ConcFrame

ConcNext == \E p \in Procs : ConcLoad(p) \/ ConcOpen(p) \/ ConcWrite(p)

SpecConc == ConcInit /\ [][ConcNext]_vars

\* both calls are over and both wrote their list
BothSaved ==
    \A p \in Procs : conc_pc[p] = "done" /\ conc_write[p] = "ok"

\* the calls did not overlap: the call that took the first step took its
\* last step before the other took its first
Sequential ==
    \A i, j, k \in 1..Len(conc_steps) :
        (i < j /\ j < k) =>
            ~(conc_steps[i][1] = conc_steps[k][1] /\
              conc_steps[j][1] # conc_steps[i][1])

\* C16: when the two save_past_topic calls run one after the other and both
\* write, the history holds both topics: the second call's topic first, the
\* first call's topic after it, then the history as it was, the whole cut
\* to 30 (an interleaving in which one of the two topics is lost is the
\* witness LostUpdate).
SequentialSavesKeepBoth ==
    (BothSaved /\ Sequential) =>
        LET first  == conc_steps[1][1]
            second == conc_steps[Len(conc_steps)][1]
        IN  /\ past_topics_file.readable
            /\ past_topics_file.topics =
                   Take(<<conc_topic[second], conc_topic[first]>>
                            \o load_past_topics(file_at_start), 30)
            /\ past_topics_file =
                   save_past_topic(
                       save_past_topic(file_at_start, conc_topic[first], "ok"),
                       conc_topic[second], "ok")

\* C16 witness: both calls are over, both wrote, and of the two different
\* topics, neither of which was in the history, the history holds only one
LostUpdate ==
    /\ BothSaved
    /\ ~Sequential
    /\ conc_topic[1] # conc_topic[2]
    /\ \A p \in Procs : conc_topic[p] \notin Range(load_past_topics(file_at_start))
    /\ past_topics_file.readable
    /\ \E p \in Procs :
          /\ conc_topic[p] \in Range(past_topics_file.topics)
          /\ conc_topic[3 - p] \notin Range(past_topics_file.topics)

(***************************************************************************)
(* The image transcoder called on its own.                                 *)
(***************************************************************************)
\* the pieces the enumerated source paths are made of
PathPieces ==
    {<<"t">>, <<"/">>, <<".">>, <<".", "p", "n", "g">>, COMPRESSED_SUFFIX}

RECURSIVE PathsOf(_)
\* the paths made of at most n pieces
PathsOf(n) ==
    IF n = 0
    THEN {<<>>}
    ELSE PathsOf(n - 1)
         \cup {p \o piece : p \in PathsOf(n - 1), piece \in PathPieces}

\* the calls that are tried: a generated 1024 x 1024 image at every
\* enumerated path and at the fallback path with the default bounding box,
\* and every small image size and bounding box at the path "t.png"
ImageInputs ==
    {[path |-> p, width |-> GENERATED_SIZE, height |-> GENERATED_SIZE,
      box |-> <<MAX_DIMENSION, MAX_DIMENSION>>] :
        p \in PathsOf(MaxPieces) \cup {FALLBACK_IMAGE_PATH}}
    \cup
    {[path |-> <<"t", ".", "p", "n", "g">>, width |-> w, height |-> h,
      box |-> <<x, y>>] : w \in 1..MaxDim, h \in 1..MaxDim,
                          x \in 1..MaxDim, y \in 1..MaxDim}

\* the fallback asset: not there, or a PNG larger than the byte budget
FallbackAssets ==
    {NoFiles,
     WriteFile(NoFiles, FALLBACK_IMAGE_PATH,
               ImageFile(GENERATED_SIZE, GENERATED_SIZE,
                         4 * BYTES_PER_KB * MAX_SIZE_KB, 0))}

\* the file at the source path: none, an image, or bytes that are no image
SourceStates == {"missing", "image", "garbage"}

\* the files on disk before the call
FilesBefore(in, asset, source) ==
    CASE source = "missing" -> asset
      [] source = "image" ->
            WriteFile(asset, in.path,
                      ImageFile(in.width, in.height,
                                4 * BYTES_PER_KB * MAX_SIZE_KB, 0))
      [] source = "garbage" ->
            WriteFile(asset, in.path, GarbageFile(BYTES_PER_KB))

\* the sizes in bytes the JPEG encoder can give a file: one byte under the
\* budget, the budget, one byte over it
EncodedSizes(kb) ==
    {BYTES_PER_KB * kb - 1, BYTES_PER_KB * kb, BYTES_PER_KB * kb + 1}

ImgInit ==
    /\ DupIdle
    /\ ConcIdle
    /\ RunIdle
    /\ \E in \in ImageInputs, asset \in FallbackAssets, source \in SourceStates :
          /\ image_path = in.path
          /\ max_dimensions = in.box
          /\ files = FilesBefore(in, asset, source)
    /\ max_size_kb = MAX_SIZE_KB
    /\ img_pc = "call"
    /\ img_size = <<0, 0>>
    /\ compressed_image_path = <<>>
    /\ quality = 0
    /\ file_size = 0
    /\ returned_path = <<>>
    /\ files_at_call = files
    /\ encoded_at = <<>>
    /\ encoded_bytes = <<>>
    /\ written = {}

\* a transcoder that, finding no source, goes on to transcode the fallback
\* asset in the place of returning its path
CompressMissingSourceTranscodesFallback ==
    /\ img_pc = "call"
    /\ image_path \notin DOMAIN files
    /\ compressed_image_path' = CompressedPath(FALLBACK_IMAGE_PATH)
    /\ img_size' \in thumbnail(GENERATED_SIZE, GENERATED_SIZE,
                               max_dimensions[1], max_dimensions[2])
    /\ quality' = START_QUALITY
    /\ img_pc' = "encode"
    /\ UNCHANGED <<image_path, max_size_kb, max_dimensions, files, file_size,
                   returned_path, files_at_call, encoded_at, encoded_bytes,
                   written, dupVars, runVars, concVars>>

\* os.path.exists(image_path) is false: the fallback path is returned
CompressMissingSource ==
    /\ img_pc = "call"
    /\ image_path \notin DOMAIN files
    /\ returned_path' = FALLBACK_IMAGE_PATH
    /\ img_pc' = "returned"
    /\ UNCHANGED <<image_path, max_size_kb, max_dimensions, files, img_size,
                   compressed_image_path, quality, file_size, files_at_call,
                   encoded_at, encoded_bytes, written, dupVars, runVars,
                   concVars>>

\* Image.open(image_path) raises: the file is no image
CompressUnreadableSource ==
    /\ img_pc = "call"
    /\ image_path \in DOMAIN files
    /\ ~files[image_path].image
    /\ img_pc' = "raised"
    /\ UNCHANGED <<image_path, max_size_kb, max_dimensions, files, img_size,
                   compressed_image_path, quality, file_size, returned_path,
                   files_at_call, encoded_at, encoded_bytes, written,
                   dupVars, runVars, concVars>>

\* the image is opened, the output path derived, the image shrunk to the
\* bounding box and quality set to 85
CompressOpen ==
    /\ img_pc = "call"
    /\ image_path \in DOMAIN files
    /\ files[image_path].image
    /\ compressed_image_path' = CompressedPath(image_path)
    /\ img_size' \in thumbnail(files[image_path].width, files[image_path].height,
                               max_dimensions[1], max_dimensions[2])
    /\ quality' = START_QUALITY
    /\ img_pc' = "encode"
    /\ UNCHANGED <<image_path, max_size_kb, max_dimensions, files, file_size,
                   returned_path, files_at_call, encoded_at, encoded_bytes,
                   written, dupVars, runVars, concVars>>

\* one pass of the encode loop: the image is saved as a JPEG at quality over
\* compressed_image_path and the file measured; the loop ends, and the path
\* of the file (which exists) is returned, or quality goes down by 5
Encode ==
    /\ img_pc = "encode"
    /\ \E bytes \in EncodedSizes(max_size_kb) :
          /\ files' = WriteFile(files, compressed_image_path,
                                ImageFile(img_size[1], img_size[2], bytes, quality))
          /\ file_size' = bytes
          /\ encoded_bytes' = Append(encoded_bytes, bytes)
          /\ IF LoopEnds(bytes, max_size_kb, quality)
             THEN /\ returned_path' = compressed_image_path
                  /\ img_pc' = "returned"
                  /\ UNCHANGED quality
             ELSE /\ quality' = quality - QUALITY_STEP
                  /\ UNCHANGED <<returned_path, img_pc>>
    /\ written' = written \cup {compressed_image_path}
    /\ encoded_at' = Append(encoded_at, quality)
    /\ UNCHANGED <<image_path, max_size_kb, max_dimensions, img_size,
                   compressed_image_path, files_at_call, dupVars, runVars,
                   concVars>>

ImgNext ==
    \/ CompressMissingSource
    \/ CompressUnreadableSource
    \/ CompressOpen
    \/ Encode

SpecImg == ImgInit /\ [][ImgNext]_vars

(***************************************************************************)
(* Properties of the image transcoder.                                     *)
(***************************************************************************)
\* C8, as claimed: on every return of compress_and_resize_image the file it
\* returns has a size <= the byte budget, or the encode quality has reached
\* the floor of 20.
EveryReturnFitsOrAtFloor ==
    img_pc = "returned" =>
        \/ /\ returned_path \in DOMAIN files
           /\ files[returned_path].bytes <= 1024 * max_size_kb
        \/ /\ encoded_at # <<>>
           /\ quality <= 20

\* C8, amended: on every return that follows an encode (the source file
\* exists), the file returned is the one last encoded, and its size is <= the
\* byte budget or it was encoded at the floor quality of 20.
EncodedReturnFitsOrAtFloor ==
    (img_pc = "returned" /\ encoded_at # <<>>) =>
        /\ returned_path \in DOMAIN files
        /\ files[returned_path].quality = encoded_at[Len(encoded_at)]
        /\ \/ files[returned_path].bytes <= 1024 * max_size_kb
           \/ files[returned_path].quality = 20

\* C8 witness: a return at the floor with a file that is over the budget
ReturnedOverBudgetAtFloor ==
    /\ img_pc = "returned"
    /\ encoded_at # <<>>
    /\ files[returned_path].bytes > 1024 * max_size_kb
    /\ files[returned_path].quality = 20

\* C9: the transcoder never upscales: the width and the height of the file
\* it encoded are each <= the source's and <= the bounding box's.
NeverUpscales ==
    (img_pc = "returned" /\ encoded_at # <<>>) =>
        LET out == files[returned_path]
            src == files_at_call[image_path]
        IN  /\ out.width <= src.width
            /\ out.width <= max_dimensions[1]
            /\ out.height <= src.height
            /\ out.height <= max_dimensions[2]

\* C9 witness: a source wider than the box and lower than it; the output
\* has the box's width and no more than the source's height
ShrunkOnOneAxis ==
    /\ img_pc = "returned"
    /\ encoded_at # <<>>
    /\ files_at_call[image_path].width > max_dimensions[1]
    /\ files_at_call[image_path].height < max_dimensions[2]
    /\ files[returned_path].width = max_dimensions[1]
    /\ files[returned_path].height <= files_at_call[image_path].height

\* C10: the transcoder never writes to its source file: every path it wrote
\* differs from the source path, and when it returns the source file is as
\* it was when it was called.
SourceNeverWritten ==
    /\ image_path \notin written
    /\ img_pc = "returned" =>
          /\ (image_path \in DOMAIN files) = (image_path \in DOMAIN files_at_call)
          /\ image_path \in DOMAIN files =>
                files[image_path] = files_at_call[image_path]

\* C10 witness: a source whose path already ends in "_compressed.jpg" was
\* transcoded into another file
TranscodedCompressedSource ==
    /\ img_pc = "returned"
    /\ written # {}
    /\ Len(image_path) > Len(COMPRESSED_SUFFIX)
    /\ SubSeq(image_path, Len(image_path) - Len(COMPRESSED_SUFFIX) + 1,
              Len(image_path)) = COMPRESSED_SUFFIX
    /\ files[image_path] = files_at_call[image_path]

\* C11: when the source file is absent, compress_and_resize_image returns
\* the path of the fallback asset without resizing or encoding anything and
\* without writing any file: the files on disk stay as they were.
MissingSourceReturnsFallbackUntouched ==
    (img_pc # "off" /\ image_path \notin DOMAIN files_at_call) =>
        /\ img_pc \in {"call", "returned"}
        /\ img_size = <<0, 0>>
        /\ encoded_at = <<>>
        /\ written = {}
        /\ files = files_at_call
        /\ img_pc = "returned" => returned_path = FALLBACK_IMAGE_PATH

\* C11 witness: a call with no source file has returned, the fallback asset
\* being on disk
ReturnedForMissingSource ==
    /\ img_pc = "returned"
    /\ image_path \notin DOMAIN files_at_call
    /\ FALLBACK_IMAGE_PATH \in DOMAIN files
    /\ returned_path = FALLBACK_IMAGE_PATH

\* C19: for a source that exists the encodes are made at the qualities 85,
\* 80, ..., in steps of 5 and never under 20, so at most 14 of them; every
\* encode but the last gave a file over the byte budget, and the file
\* returned is the last encode, which is within the budget or was made at
\* quality 20.
QualityLadderToFirstFit ==
    /\ Len(encoded_at) <= 14
    /\ Len(encoded_bytes) = Len(encoded_at)
    /\ \A i \in 1..Len(encoded_at) :
          /\ encoded_at[i] = 85 - 5 * (i - 1)
          /\ encoded_at[i] >= 20
    /\ \A i \in 1..(Len(encoded_at) - 1) :
          encoded_bytes[i] > 1024 * max_size_kb
    /\ img_pc = "encode" =>
          \A i \in 1..Len(encoded_at) :
              /\ encoded_bytes[i] > 1024 * max_size_kb
              /\ encoded_at[i] > 20
    /\ (img_pc = "returned" /\ image_path \in DOMAIN files_at_call) =>
          LET last == Len(encoded_at)
          IN  /\ last >= 1
              /\ returned_path \in DOMAIN files
              /\ files[returned_path].quality = encoded_at[last]
              /\ files[returned_path].bytes = encoded_bytes[last]
              /\ \/ encoded_bytes[last] <= 1024 * max_size_kb
                 \/ encoded_at[last] = 20

\* C19 witness: a return after three encodes, the third, at quality 75,
\* being the first within the budget
ReturnedFirstFitAtThirdQuality ==
    /\ img_pc = "returned"
    /\ encoded_at = <<85, 80, 75>>
    /\ encoded_bytes[3] <= 1024 * max_size_kb
    /\ files[returned_path].quality = 75

====
